---- MODULE Spec2Model ----
(***************************************************************************)
(* Cart synchronization layer of the luli-beads storefront:                *)
(*   CartService          (Local Cart Store)                               *)
(*   CartDatabaseService  (Remote Cart Gateway)                            *)
(*   CartStateService     (Cart Synchronization Coordinator)               *)
(* Money is kept in the currency units of the source.  The catalogue       *)
(* prices are multiples of 50, for which the IEEE double subtotal * 0.08   *)
(* is the exact integer subtotal * 8 / 100.                                *)
(***************************************************************************)
EXTENDS Integers, Sequences, FiniteSets, TLC

(* ------------------------------ bounds --------------------------------- *)
\* largest quantity argument of add / updateQuantity
MaxQty == 2
\* number of item ids the local store may generate
MaxLocalIds == 2
\* largest quantity a line item may accumulate through repeated adds
MaxLineQty == 3

(* ----------------------------- catalogue -------------------------------- *)
Products == {"p1", "p2"}
Price(pid) == IF pid = "p1" THEN 50 ELSE 100
\* 0 stands for "no originalPrice" (falsy in the source)
OriginalPrice(pid) == IF pid = "p1" THEN 100 ELSE 0

\* JavaScript undefined and null are different values under ===
UNDEF == "undefined"
NULL == "null"

Colors == {UNDEF, "red"}
Handles == {UNDEF}
Names == {UNDEF}
\* quantity arguments: the API takes any number
QtyArgs == (0 - 1)..MaxQty
LocalIds == 1..MaxLocalIds

ShippingFee == 15
FreeShippingThreshold == 200
TaxPercent == 8

(* ------------------------------ helpers --------------------------------- *)
RECURSIVE SumSeq(_)
SumSeq(s) == IF s = <<>> THEN 0 ELSE Head(s) + SumSeq(Tail(s))

\* Array.prototype.find: index of the first element satisfying Test, 0 if none
FindIndex(s, Test(_)) ==
    IF \E i \in 1..Len(s) : Test(s[i])
    THEN CHOOSE i \in 1..Len(s) : Test(s[i]) /\ \A j \in 1..(i - 1) : ~Test(s[j])
    ELSE 0

(* --------------------------- calculateSummary --------------------------- *)
\* calculateSummary counting line items instead of quantities
calculateSummary_countLines(items) ==
    LET subtotal == SumSeq([i \in 1..Len(items) |-> items[i].price * items[i].quantity])
        shipping == IF subtotal > 0
                    THEN (IF subtotal >= FreeShippingThreshold THEN 0 ELSE ShippingFee)
                    ELSE 0
        tax == (subtotal * TaxPercent) \div 100
    IN  [ totalItems    |-> Len(items),
          totalPrice    |-> subtotal + shipping + tax,
          totalDiscount |-> 0,
          subtotal      |-> subtotal,
          shipping      |-> shipping,
          tax           |-> tax ]

\* calculateSummary waiving the fee only above the threshold
calculateSummary_strictThreshold(items) ==
    LET subtotal == SumSeq([i \in 1..Len(items) |-> items[i].price * items[i].quantity])
        shipping == IF subtotal > 0
                    THEN (IF subtotal > FreeShippingThreshold THEN 0 ELSE ShippingFee)
                    ELSE 0
        tax == (subtotal * TaxPercent) \div 100
    IN  [ totalItems    |-> SumSeq([i \in 1..Len(items) |-> items[i].quantity]),
          totalPrice    |-> subtotal + shipping + tax,
          totalDiscount |-> 0,
          subtotal      |-> subtotal,
          shipping      |-> shipping,
          tax           |-> tax ]

calculateSummary(items) ==
    LET subtotal == SumSeq([i \in 1..Len(items) |-> items[i].price * items[i].quantity])
        totalDiscount ==
            SumSeq([i \in 1..Len(items) |->
                IF OriginalPrice(items[i].pid) # 0
                THEN (OriginalPrice(items[i].pid) - items[i].price) * items[i].quantity
                ELSE 0])
        shipping == IF subtotal > 0
                    THEN (IF subtotal >= FreeShippingThreshold THEN 0 ELSE ShippingFee)
                    ELSE 0
        tax == (subtotal * TaxPercent) \div 100
    IN  [ totalItems    |-> SumSeq([i \in 1..Len(items) |-> items[i].quantity]),
          totalPrice    |-> subtotal + shipping + tax,
          totalDiscount |-> totalDiscount,
          subtotal      |-> subtotal,
          shipping      |-> shipping,
          tax           |-> tax ]

(* ------------------------ CartService (local store) --------------------- *)
SameTuple(item, pid, c, h, n) ==
    /\ item.pid = pid
    /\ item.selectedColor = c
    /\ item.selectedHandle = h
    /\ item.customName = n

CS_removeFromCart(items, itemId) ==
    SelectSeq(items, LAMBDA it : it.id # itemId)

\* updateItemQuantity removing only below zero
CS_updateItemQuantity_belowZero(items, itemId, quantity) ==
    IF quantity < 0
    THEN CS_removeFromCart(items, itemId)
    ELSE [i \in 1..Len(items) |->
            IF items[i].id = itemId
            THEN [items[i] EXCEPT !.quantity = quantity]
            ELSE items[i]]

CS_updateItemQuantity(items, itemId, quantity) ==
    IF quantity <= 0
    THEN CS_removeFromCart(items, itemId)
    ELSE [i \in 1..Len(items) |->
            IF items[i].id = itemId
            THEN [items[i] EXCEPT !.quantity = quantity]
            ELSE items[i]]

\* newId is the id generateItemId() would return
CS_addToCart(items, newId, pid, quantity, c, h, n) ==
    LET k == FindIndex(items, LAMBDA it : SameTuple(it, pid, c, h, n))
    IN  IF k # 0
        THEN CS_updateItemQuantity(items, items[k].id, items[k].quantity + quantity)
        ELSE Append(items, [ id             |-> newId,
                             pid            |-> pid,
                             quantity       |-> quantity,
                             selectedColor  |-> c,
                             selectedHandle |-> h,
                             customName     |-> n,
                             price          |-> Price(pid) ])

\* a key the updates object of updateItemCustomization does not carry
ABSENT == "absent"

\* { ...item, ...updates }: the keys present in updates replace the item's
CS_updateItemCustomization(items, itemId, updates) ==
    [i \in 1..Len(items) |->
        IF items[i].id = itemId
        THEN [items[i] EXCEPT
                !.selectedColor  = IF updates.selectedColor = ABSENT THEN @
                                   ELSE updates.selectedColor,
                !.selectedHandle = IF updates.selectedHandle = ABSENT THEN @
                                   ELSE updates.selectedHandle,
                !.customName     = IF updates.customName = ABSENT THEN @
                                   ELSE updates.customName]
        ELSE items[i]]

CS_clearCart(items) == <<>>

\* the ids of the items of a list
Ids(items) == {items[i].id : i \in 1..Len(items)}

\* Object identity.  removeFromCart filters the array and keeps the item
\* objects; updateItemQuantity and updateItemCustomization put a spread copy in
\* the place of the item they change; addToCart appends a new object or goes
\* through updateItemQuantity.  Each operator gives the ids whose object in
\* the new array is not the object the old array held.
CopiedByUpdateQuantity(items, itemId, quantity) ==
    IF quantity <= 0 THEN {} ELSE {itemId} \cap Ids(items)
CopiedByCustomization(items, itemId) == {itemId} \cap Ids(items)
CopiedByAdd(items, newId, pid, quantity, c, h, n) ==
    LET k == FindIndex(items, LAMBDA it : SameTuple(it, pid, c, h, n))
    IN  IF k # 0
        THEN CopiedByUpdateQuantity(items, items[k].id, items[k].quantity + quantity)
        ELSE {newId}


(* ------------------------------ more bounds ----------------------------- *)
\* rows the remote table may ever receive (ids are never reused)
MaxDbIds == 2
\* change-feed events waiting for delivery
MaxFeed == 1
\* coordinator operations awaiting their remote call
MaxCalls == 1
\* PendingChange objects ever created
MaxChanges == 2
\* processPendingChanges invocations in flight
MaxDrains == 2
\* change-feed INSERT refetches in flight
MaxFetches == 1
\* syncCartWithDatabase invocations in flight
MaxRecons == 1

\* cart operations the user issues through the coordinator
MaxOps == 2

\* retry ceiling of processPendingChanges
RetryCeiling == 3

\* Timestamps are kept as ranks: 0 is null, Now is later than every stored one.
\* new Date() has millisecond resolution: a handler that runs within the
\* millisecond of the latest stored timestamp reads that timestamp again.
Now == 3
\* times new Date() may return the latest stored timestamp again
MaxSameMs == 1
Rank(x, y) == IF x = 0 THEN 0 ELSE IF y # 0 /\ y < x THEN 2 ELSE 1

\* Row ids of the remote table are UUIDs, ids of generateItemId() are not:
\* ids above DbIdBase are the UUIDs.
DbIdBase == 100
IsUuid(id) == id > DbIdBase

\* an optional field left undefined is stored as SQL NULL
ToDb(v) == IF v = UNDEF THEN NULL ELSE v

RECURSIVE Reverse(_)
Reverse(s) == IF s = <<>> THEN <<>> ELSE Append(Reverse(Tail(s)), Head(s))

Range(s) == {s[i] : i \in 1..Len(s)}

RemoveAt(s, k) == [i \in 1..(Len(s) - 1) |-> IF i < k THEN s[i] ELSE s[i + 1]]

(* --------------------- Remote table (cart_items) ------------------------ *)
\* UNIQUE(user_id, product_id, selected_color, selected_handle, custom_name):
\* SQL NULLs are distinct, so only fully customized rows can collide
UniqueViolation(db, row, selfId) ==
    \E i \in 1..Len(db) :
        /\ db[i].id # selfId
        /\ db[i].product_id = row.product_id
        /\ row.selected_color # NULL /\ db[i].selected_color = row.selected_color
        /\ row.selected_handle # NULL /\ db[i].selected_handle = row.selected_handle
        /\ row.custom_name # NULL /\ db[i].custom_name = row.custom_name

FeedEvent(type, row) == [eventType |-> type, row |-> row]

\* the change feed delivers to the subscribed session only
Publish(s, events) ==
    IF s.sub
    THEN [s EXCEPT !.feed = @ \o events,
                   !.overflow = @ \/ Len(s.feed) + Len(events) > MaxFeed]
    ELSE s

\* insert into cart_items; CHECK (quantity > 0)
DB_insert(s, item) ==
    LET row == [ id              |-> DbIdBase + s.nextDbId,
                 product_id      |-> item.product_id,
                 quantity        |-> item.quantity,
                 selected_color  |-> ToDb(item.selected_color),
                 selected_handle |-> ToDb(item.selected_handle),
                 custom_name     |-> ToDb(item.custom_name) ]
    IN  IF ~s.remoteUp \/ item.quantity <= 0 \/ UniqueViolation(s.db, row, 0)
        THEN [ok |-> FALSE, s |-> s]
        ELSE [ok |-> TRUE,
              s  |-> Publish([s EXCEPT !.db = Append(@, row),
                                       !.nextDbId = @ + 1,
                                       !.overflow = @ \/ s.nextDbId > MaxDbIds],
                             <<FeedEvent("INSERT", row)>>)]

\* update ... eq('id', itemId).select().single(): no row is an error
DB_update(s, itemId, upd) ==
    LET k == FindIndex(s.db, LAMBDA r : r.id = itemId)
        row == IF k = 0 THEN upd
               ELSE [ id              |-> itemId,
                      product_id      |-> s.db[k].product_id,
                      quantity        |-> upd.quantity,
                      selected_color  |-> IF upd.selected_color = UNDEF
                                          THEN s.db[k].selected_color ELSE upd.selected_color,
                      selected_handle |-> IF upd.selected_handle = UNDEF
                                          THEN s.db[k].selected_handle ELSE upd.selected_handle,
                      custom_name     |-> IF upd.custom_name = UNDEF
                                          THEN s.db[k].custom_name ELSE upd.custom_name ]
    IN  IF ~s.remoteUp \/ ~IsUuid(itemId) \/ k = 0 \/ upd.quantity <= 0
           \/ UniqueViolation(s.db, row, itemId)
        THEN [ok |-> FALSE, s |-> s]
        ELSE [ok |-> TRUE,
              s  |-> Publish([s EXCEPT !.db[k] = row], <<FeedEvent("UPDATE", row)>>)]

\* delete ... eq('id', itemId): deleting no row is no error
DB_delete(s, itemId) ==
    LET k == FindIndex(s.db, LAMBDA r : r.id = itemId)
    IN  IF ~s.remoteUp \/ ~IsUuid(itemId)
        THEN [ok |-> FALSE, s |-> s]
        ELSE [ok |-> TRUE,
              s  |-> IF k = 0 THEN s
                     ELSE Publish([s EXCEPT !.db = RemoveAt(@, k)],
                                  <<FeedEvent("DELETE", s.db[k])>>)]

\* delete ... eq('user_id', userId)
DB_deleteAll(s) ==
    IF ~s.remoteUp
    THEN [ok |-> FALSE, s |-> s]
    ELSE [ok |-> TRUE,
          s  |-> Publish([s EXCEPT !.db = <<>>],
                         [i \in 1..Len(s.db) |-> FeedEvent("DELETE", s.db[i])])]

\* select ... order('created_at', descending)
DB_select(s) == Reverse(s.db)

transformDatabaseItemToCartItem(dbItem) ==
    [ id             |-> dbItem.id,
      pid            |-> dbItem.product_id,
      quantity       |-> dbItem.quantity,
      selectedColor  |-> dbItem.selected_color,
      selectedHandle |-> dbItem.selected_handle,
      customName     |-> dbItem.custom_name,
      price          |-> Price(dbItem.product_id) ]

TransformAll(rows) == [i \in 1..Len(rows) |-> transformDatabaseItemToCartItem(rows[i])]
(* ----------------- CartService: publish a new item list ------------------ *)
\* CartStateService.updateLocalCartState, the subscriber of CartService.cartState$.
\* updateCartState(localState) spreads localState into the new CartState: the
\* items array of the Local Cart Store, and so its item objects, become those
\* of the coordinator; a reconciliation in flight keeps the array it was given
updateLocalCartState(s, localState) ==
    IF s.cartState.lastSync = 0
       \/ (localState.lastSync # 0 /\ localState.lastSync > s.cartState.lastSync)
    THEN [s EXCEPT !.cartState = localState,
                   !.shared = Ids(localState.items),
                   !.recons = [r \in DOMAIN @ |-> [@[r] EXCEPT !.live = s.recons[r].loc]],
                   !.changeRef = [c \in DOMAIN @ |-> [@[c] EXCEPT !.live = s.changeRef[c].loc]]]
    ELSE s

\* CartService.updateCart: next(newState) runs the subscriber, then the items
\* are saved.  copied are the ids whose object in items is not the one the
\* previous array held
CS_updateCart(s, items, copied) ==
    LET newState == [ items     |-> items,
                      summary   |-> calculateSummary(items),
                      isLoading |-> FALSE,
                      error     |-> NULL,
                      lastSync  |-> s.now ]
        kept == Ids(items) \ copied
        s0 == [s EXCEPT !.localCart = newState,
                        !.shared = @ \cap kept,
                        !.recons = [r \in DOMAIN @ |-> [@[r] EXCEPT !.loc = @ \cap kept]],
                        !.changeRef = [c \in DOMAIN @ |->
                            [@[c] EXCEPT !.loc = @ /\ s.changeObj[c].item.id \in kept]]]
        s1 == updateLocalCartState(s0, newState)
    IN  [s1 EXCEPT !.storage = [present |-> TRUE, items |-> items, lastSync |-> 0]]

\* CartStateService.saveCartToStorage
saveCartToStorage(s, items) ==
    [s EXCEPT !.storage = [present |-> TRUE, items |-> items, lastSync |-> 1]]

(* ------------------------- pending-change queue -------------------------- *)
NoItem == [ kind |-> "undefined", id |-> 0, pid |-> "", quantity |-> 0,
            selectedColor |-> "", selectedHandle |-> "", customName |-> "" ]
\* a CartItemCreate payload carried by an 'add' change
CreateItem(pid, q, c, h, n) ==
    [ kind |-> "create", id |-> 0, pid |-> pid, quantity |-> q,
      selectedColor |-> c, selectedHandle |-> h, customName |-> n ]
\* a CartItem carried by an 'update' or 'remove' change
StoredItem(it) ==
    [ kind |-> "item", id |-> it.id, pid |-> it.pid, quantity |-> it.quantity,
      selectedColor |-> it.selectedColor, selectedHandle |-> it.selectedHandle,
      customName |-> it.customName ]

NoChange == [type |-> "none", item |-> NoItem, retryCount |-> 0]

\* where the item object of a change is held besides the change: live, in the
\* items of CartState; loc, in the items of the Local Cart Store
NoRef == [live |-> FALSE, loc |-> FALSE]

\* addPendingChange for a change whose item is an object of its own (the
\* creation payload, a spread copy, or undefined)
addPendingChange(s, type, item) ==
    LET c == s.nextChange
    IN  IF c > MaxChanges
        THEN [s EXCEPT !.overflow = TRUE]
        ELSE [s EXCEPT !.changeObj[c] = [type |-> type, item |-> item, retryCount |-> 0],
                       !.changeRef[c] = NoRef,
                       !.nextChange = c + 1,
                       !.pendingChanges = Append(@, c),
                       !.syncState.pendingChanges = Append(@, c)]

\* addPendingChange for a change that carries the k-th item object of CartState
\* itself: the change and CartState.items hold the same object
addPendingChangeOf(s, type, k) ==
    LET it == s.cartState.items[k]
        s1 == addPendingChange(s, type, StoredItem(it))
    IN  IF s1.overflow THEN s1
        ELSE [s1 EXCEPT !.changeRef[s.nextChange] =
                            [live |-> TRUE, loc |-> it.id \in s.shared]]

\* reading .id of an undefined item throws before any remote call is made
ThrowsSync(ch) == ch.type # "add" /\ ch.item.kind = "undefined"

\* a catch block that puts the failed change in front of the earlier failures
ReplayFailed_prepend(s, d, c) ==
    LET n == s.changeObj[c].retryCount + 1
    IN  [s EXCEPT !.changeObj[c].retryCount = n,
                  !.drains[d].failed = IF n < RetryCeiling THEN <<c>> \o @ ELSE @,
                  !.drains[d].pos = @ + 1]

\* the catch block of the replay loop
ReplayFailed(s, d, c) ==
    LET n == s.changeObj[c].retryCount + 1
    IN  [s EXCEPT !.changeObj[c].retryCount = n,
                  !.drains[d].failed = IF n < RetryCeiling THEN Append(@, c) ELSE @,
                  !.drains[d].pos = @ + 1]

\* processPendingChanges from its loop position up to the next await, or to its end
RECURSIVE DrainRun(_, _)
DrainRun(s, d) ==
    LET dr == s.drains[d]
    IN  IF dr.pos > Len(dr.changes)
        THEN [s EXCEPT !.pendingChanges = dr.failed,
                       !.syncState.pendingChanges = dr.failed,
                       !.drains = RemoveAt(@, d)]
        ELSE IF ThrowsSync(s.changeObj[dr.changes[dr.pos]])
             THEN DrainRun(ReplayFailed(s, d, dr.changes[dr.pos]), d)
             ELSE s

\* a drain that does not ask whether a user is signed in
processPendingChanges_anyUser(s) ==
    IF Len(s.pendingChanges) = 0
    THEN s
    ELSE IF Len(s.drains) >= MaxDrains
         THEN [s EXCEPT !.overflow = TRUE]
         ELSE DrainRun([s EXCEPT !.drains = Append(@, [ changes |-> s.pendingChanges,
                                                        pos     |-> 1,
                                                        failed  |-> <<>> ])],
                       Len(s.drains) + 1)

\* CartStateService.processPendingChanges, up to its first await
processPendingChanges(s) ==
    IF Len(s.pendingChanges) = 0 \/ ~s.user
    THEN s
    ELSE IF Len(s.drains) >= MaxDrains
         THEN [s EXCEPT !.overflow = TRUE]
         ELSE DrainRun([s EXCEPT !.drains = Append(@, [ changes |-> s.pendingChanges,
                                                        pos     |-> 1,
                                                        failed  |-> <<>> ])],
                       Len(s.drains) + 1)

\* syncStatus.next(...) together with the subscriber of setupRealtimeSync
syncStatusNext(s, status) ==
    LET s1 == [s EXCEPT !.syncStatus = status,
                        !.syncState.isOnline = status.isOnline,
                        !.syncState.lastSyncAttempt = status.lastSync]
    IN  IF status.isOnline /\ Len(s1.pendingChanges) > 0
        THEN processPendingChanges(s1)
        ELSE s1

\* updateSyncStatus({ lastSync: new Date() }) after a successful remote write
MarkSynced(s) == syncStatusNext(s, [s.syncStatus EXCEPT !.lastSync = 1])

\* CartDatabaseService.addCartItem / updateCartItem / removeCartItem / clearUserCart
WithSync(r) == IF r.ok THEN [ok |-> TRUE, s |-> MarkSynced(r.s)] ELSE r
addCartItem(s, item) == WithSync(DB_insert(s, item))
updateCartItem(s, itemId, upd) == WithSync(DB_update(s, itemId, upd))
removeCartItem(s, itemId) == WithSync(DB_delete(s, itemId))
clearUserCart(s) == WithSync(DB_deleteAll(s))

\* the remote call a queued change is replayed with
ReplayCall(s, ch) ==
    CASE ch.type = "add" ->
            addCartItem(s, [ product_id      |-> ch.item.pid,
                           quantity        |-> ch.item.quantity,
                           selected_color  |-> ch.item.selectedColor,
                           selected_handle |-> ch.item.selectedHandle,
                           custom_name     |-> ch.item.customName ])
      [] ch.type = "update" ->
            updateCartItem(s, ch.item.id, [ quantity        |-> ch.item.quantity,
                                       selected_color  |-> ch.item.selectedColor,
                                       selected_handle |-> ch.item.selectedHandle,
                                       custom_name     |-> ch.item.customName ])
      [] OTHER -> removeCartItem(s, ch.item.id)

(* -------------------------------- state ---------------------------------- *)
VARIABLES
    localCart,       \* CartService.cartState
    cartState,       \* CartStateService.cartState
    storage,         \* localStorage['luli-cart']
    user,            \* AuthService: a user is signed in
    sub,             \* CartStateService.realtimeSubscription is set
    syncStatus,      \* CartDatabaseService.syncStatus
    syncState,       \* CartStateService.syncState
    pendingChanges,  \* CartStateService.pendingChanges (references to change objects)
    changeObj,       \* the CartItemChange objects, shared by queue and drains
    changeRef,       \* for each change object, which item arrays hold its item object
    nextChange,      \* number of change objects created, plus one
    calls,           \* coordinator operations awaiting their remote call
    drains,          \* processPendingChanges invocations awaiting a remote call
    recons,          \* syncCartWithDatabase invocations in flight
    fetches,         \* refetches started by change-feed INSERT events, in flight
    db,              \* rows of cart_items of the user, in creation order
    nextDbId,        \* number of rows created, plus one
    feed,            \* change-feed events not yet delivered
    remoteUp,        \* remote calls issued now succeed
    nextLocalId,     \* number of ids generateItemId() has handed out, plus one
    uiOps,           \* number of cart operations the user has issued
    reconSnap,       \* history: what the last reconciliation left, until a mutation
    lastOp,          \* history: the operation the last step performed
    callerResult,    \* history: how the last finished coordinator operation settled
    validation,      \* history: what the last validateCartForCheckout() returned
    guard,           \* CartSyncGuard: position of the navigation it guards
    shared,          \* ids whose item object is in cartState.items and in localCart.items
    authSub,         \* CartStateService.authSubscription is subscribed
    authLoading,     \* AuthService: isLoading of the authentication state
    sameMs           \* times a handler has read a stored timestamp from the clock again

vars == << localCart, cartState, storage, user, sub, syncStatus, syncState,
           pendingChanges, changeObj, nextChange, calls, drains, recons, fetches,
           db, nextDbId, feed, remoteUp, nextLocalId, uiOps, reconSnap, lastOp, callerResult,
           validation, guard, shared, authSub, sameMs, changeRef, authLoading >>

\* the program state as one record, for the handlers to transform
Cur == [ localCart |-> localCart, cartState |-> cartState, storage |-> storage,
         user |-> user, sub |-> sub, syncStatus |-> syncStatus, syncState |-> syncState,
         pendingChanges |-> pendingChanges, changeObj |-> changeObj,
         nextChange |-> nextChange, calls |-> calls, drains |-> drains,
         recons |-> recons, fetches |-> fetches, db |-> db,
         nextDbId |-> nextDbId, feed |-> feed, remoteUp |-> remoteUp,
         nextLocalId |-> nextLocalId, validation |-> validation,
         guard |-> guard, shared |-> shared, authSub |-> authSub,
         changeRef |-> changeRef, authLoading |-> authLoading,
         now |-> Now, overflow |-> FALSE ]

\* what new Date() may return to a handler: a later time, or the latest
\* stored timestamp when the handler runs within the same millisecond
Clock ==
    LET latest == IF localCart.lastSync > cartState.lastSync
                  THEN localCart.lastSync ELSE cartState.lastSync
    IN  {Now} \cup (IF latest # 0 /\ sameMs < MaxSameMs THEN {latest} ELSE {})

\* the program state handed to a handler for which new Date() returns t
At(t) == [Cur EXCEPT !.now = t]

\* a change object is reachable from the queue or from a drain still to replay it
Referenced(s, c) ==
    \/ \E i \in 1..Len(s.pendingChanges) : s.pendingChanges[i] = c
    \/ \E d \in 1..Len(s.drains) :
            \/ \E i \in s.drains[d].pos..Len(s.drains[d].changes) : s.drains[d].changes[i] = c
            \/ \E i \in 1..Len(s.drains[d].failed) : s.drains[d].failed[i] = c

\* the filter of CartSyncGuard on cartState$ (lastSync 0 stands for null)
GuardFilter(state) == ~state.isLoading /\ state.lastSync # 0

\* a waiting CartSyncGuard takes the first emitted CartState that passes its filter
GuardOnEmit(g, state) == IF g = "waiting" /\ GuardFilter(state) THEN "allowed" ELSE g

\* a CartSyncGuard waiting for the authentication state takes the first state
\* with isLoading false: it reads getCurrentUser() and, for a user, goes on to
\* wait for CartState; a guest passes
GuardOnAuth(g, loading, u) ==
    IF g = "authWait" /\ ~loading THEN (IF u THEN "waiting" ELSE "allowed") ELSE g

\* a handler's result (evaluated once, as v) becomes the next state, unless it
\* ran into a bound;
\* change objects nothing refers to any more are collected
Commit(s) ==
    \E v \in {s} :
        /\ ~v.overflow
        /\ localCart' = [v.localCart EXCEPT !.lastSync = Rank(@, v.cartState.lastSync)]
        /\ cartState' = [v.cartState EXCEPT !.lastSync = Rank(@, v.localCart.lastSync)]
        /\ storage' = v.storage
        /\ user' = v.user
        /\ sub' = v.sub
        /\ syncStatus' = v.syncStatus
        /\ syncState' = v.syncState
        /\ pendingChanges' = v.pendingChanges
        /\ changeObj' = [c \in DOMAIN v.changeObj |->
                            IF Referenced(v, c) THEN v.changeObj[c] ELSE NoChange]
        /\ changeRef' = [c \in DOMAIN v.changeRef |->
                            IF Referenced(v, c) THEN v.changeRef[c] ELSE NoRef]
        /\ authLoading' = v.authLoading
        /\ nextChange' = v.nextChange
        /\ calls' = v.calls
        /\ drains' = v.drains
        /\ recons' = v.recons
        /\ fetches' = v.fetches
        /\ db' = v.db
        /\ nextDbId' = v.nextDbId
        /\ feed' = v.feed
        /\ remoteUp' = v.remoteUp
        /\ nextLocalId' = v.nextLocalId
        /\ validation' = v.validation
        /\ shared' = v.shared
        /\ authSub' = v.authSub
        /\ sameMs' = IF v.now # Now /\ (v.localCart # localCart \/ v.cartState # cartState)
                     THEN sameMs + 1 ELSE sameMs
        /\ guard' = GuardOnEmit(GuardOnAuth(v.guard, v.authLoading, v.user),
                        [v.cartState EXCEPT !.lastSync = Rank(@, v.localCart.lastSync)])

NoSnap == [valid |-> FALSE, items |-> <<>>, db |-> <<>>]

\* lastOp: op names the handler, of the operation a returning call belongs to
Op(o, id, pid, q, c, h, n) ==
    [op |-> o, of |-> "", id |-> id, pid |-> pid, q |-> q, c |-> c, h |-> h, n |-> n]
NoOp == Op("init", 0, "", 0, "", "", "")

EmptyCartState == [ items     |-> <<>>,
                    summary   |-> calculateSummary(<<>>),
                    isLoading |-> FALSE,
                    error     |-> NULL,
                    lastSync  |-> 0 ]

\* nothing has been validated yet
NoValidation == [isValid |-> FALSE, errors |-> <<>>]

\* the services as constructed on a fresh browser profile, online: everything
\* but the coordinator's CartState
Constructed ==
    /\ localCart = EmptyCartState
    /\ storage = [present |-> FALSE, items |-> <<>>, lastSync |-> 0]
    /\ user = FALSE
    /\ sub = FALSE
    /\ syncStatus = [isOnline |-> TRUE, lastSync |-> 0, pendingChanges |-> 0, errors |-> 0]
    /\ syncState = [ isOnline |-> TRUE, lastSyncAttempt |-> 0,
                     pendingChanges |-> <<>>, syncErrors |-> <<>> ]
    /\ pendingChanges = <<>>
    /\ changeObj = [c \in 1..(MaxChanges + 1) |-> NoChange]
    /\ changeRef = [c \in 1..(MaxChanges + 1) |-> NoRef]
    /\ authLoading = TRUE
    /\ nextChange = 1
    /\ calls = <<>>
    /\ drains = <<>>
    /\ recons = <<>>
    /\ fetches = 0
    /\ db = <<>>
    /\ nextDbId = 1
    /\ feed = <<>>
    /\ remoteUp = TRUE
    /\ nextLocalId = 1
    /\ uiOps = 0
    /\ reconSnap = NoSnap
    /\ lastOp = NoOp
    /\ callerResult = "none"
    /\ validation = NoValidation
    /\ guard = "idle"
    /\ shared = {}
    /\ authSub = TRUE
    /\ sameMs = 0

Init == cartState = EmptyCartState /\ Constructed

(* ------------------- Local Cart Store, called directly ------------------- *)
\* the model stops accumulating a line's quantity at MaxLineQty
QtyWithinCap(items) == \A i \in 1..Len(items) : items[i].quantity <= MaxLineQty

HasTuple(items, pid, c, h, n) ==
    FindIndex(items, LAMBDA it : SameTuple(it, pid, c, h, n)) # 0

\* CartService.addToCart with its subscribers
LocalAddStep(s, pid, q, c, h, n) ==
    LET hit == HasTuple(s.localCart.items, pid, c, h, n)
        items == CS_addToCart(s.localCart.items, s.nextLocalId, pid, q, c, h, n)
        s1 == CS_updateCart(s, items,
                            CopiedByAdd(s.localCart.items, s.nextLocalId, pid, q, c, h, n))
    IN  [s1 EXCEPT !.nextLocalId = IF hit THEN @ ELSE @ + 1,
                   !.overflow = @ \/ (~hit /\ s.nextLocalId > MaxLocalIds)
                                  \/ ~QtyWithinCap(items)]

\* CartService.removeFromCart with its subscribers
LocalRemoveStep(s, id) ==
    CS_updateCart(s, CS_removeFromCart(s.localCart.items, id), {})

\* CartService.updateItemQuantity with its subscribers
LocalUpdateQuantityStep(s, id, q) ==
    CS_updateCart(s, CS_updateItemQuantity(s.localCart.items, id, q),
                  CopiedByUpdateQuantity(s.localCart.items, id, q))

\* CartService.updateItemCustomization with its subscribers
LocalUpdateCustomizationStep(s, id, updates) ==
    CS_updateCart(s, CS_updateItemCustomization(s.localCart.items, id, updates),
                  CopiedByCustomization(s.localCart.items, id))

\* CartService.clearCart with its subscribers
LocalClearStep(s) == CS_updateCart(s, CS_clearCart(s.localCart.items), {})

LocalAdd ==
    \E t \in Clock, pid \in Products, q \in QtyArgs, c \in Colors, h \in Handles, n \in Names :
        /\ Commit(LocalAddStep(At(t), pid, q, c, h, n))
        /\ lastOp' = Op("add", 0, pid, q, c, h, n)
        /\ UNCHANGED <<callerResult, uiOps>>
        /\ reconSnap' = NoSnap

LocalRemove ==
    \E t \in Clock, id \in LocalIds :
        /\ Commit(LocalRemoveStep(At(t), id))
        /\ lastOp' = Op("remove", id, "", 0, "", "", "")
        /\ UNCHANGED <<callerResult, uiOps>>
        /\ reconSnap' = NoSnap

LocalUpdateQuantity ==
    \E t \in Clock, id \in LocalIds, q \in QtyArgs :
        /\ Commit(LocalUpdateQuantityStep(At(t), id, q))
        /\ lastOp' = Op("update", id, "", q, "", "", "")
        /\ UNCHANGED <<callerResult, uiOps>>
        /\ reconSnap' = NoSnap

\* the updates objects: each key absent or carrying a value
CustomizationArgs ==
    [ selectedColor  : Colors \cup {ABSENT},
      selectedHandle : Handles \cup {ABSENT},
      customName     : Names \cup {ABSENT} ]

LocalUpdateCustomization ==
    \E t \in Clock, id \in LocalIds, updates \in CustomizationArgs :
        /\ Commit(LocalUpdateCustomizationStep(At(t), id, updates))
        /\ lastOp' = Op("customize", id, "", 0, updates.selectedColor,
                        updates.selectedHandle, updates.customName)
        /\ UNCHANGED <<callerResult, uiOps>>
        /\ reconSnap' = NoSnap

LocalClear ==
    \E t \in Clock :
        /\ Commit(LocalClearStep(At(t)))
        /\ lastOp' = Op("clear", 0, "", 0, "", "", "")
        /\ UNCHANGED <<callerResult, uiOps>>
        /\ reconSnap' = NoSnap

NextLocal == LocalAdd \/ LocalRemove \/ LocalUpdateQuantity \/ LocalUpdateCustomization
             \/ LocalClear

\* the Local Cart Store on its own
SpecLocal == Init /\ [][NextLocal]_vars

(* --------------------- Coordinator: outward operations ------------------- *)
CoordQtyArgs == 0..MaxQty
\* the ids the cart page can name
KnownIds == {cartState.items[i].id : i \in 1..Len(cartState.items)}
                \cup {localCart.items[i].id : i \in 1..Len(localCart.items)}

\* one more operation issued by the user
CountOp == uiOps < MaxOps /\ uiOps' = uiOps + 1 /\ reconSnap' = NoSnap

\* issue the remote call of an operation when a user is signed in
Await(s, call) ==
    IF s.user
    THEN [s EXCEPT !.calls = Append(@, call),
                   !.overflow = @ \/ Len(s.calls) >= MaxCalls]
    ELSE s

\* CartStateService.addToCart up to its await
AddToCartWith(P, Q, C) ==
    \E t \in Clock, pid \in P, q \in Q, c \in C, h \in Handles, n \in Names :
        /\ Commit(Await(LocalAddStep(At(t), pid, q, c, h, n), Op("add", 0, pid, q, c, h, n)))
        /\ lastOp' = Op("addToCart", 0, pid, q, c, h, n)
        /\ callerResult' = IF user THEN "pending" ELSE "resolved"
        /\ CountOp

AddToCart == AddToCartWith(Products, CoordQtyArgs, Colors)

\* CartStateService.removeFromCart up to its await
RemoveFromCart ==
    \E t \in Clock, id \in KnownIds :
        /\ Commit(Await(LocalRemoveStep(At(t), id), Op("remove", id, "", 0, "", "", "")))
        /\ lastOp' = Op("removeFromCart", id, "", 0, "", "", "")
        /\ callerResult' = IF user THEN "pending" ELSE "resolved"
        /\ CountOp

\* CartStateService.updateItemQuantity up to its await
UpdateItemQuantityWith(Q) ==
    \E t \in Clock, id \in KnownIds, q \in Q :
        /\ Commit(Await(LocalUpdateQuantityStep(At(t), id, q),
                        Op("update", id, "", q, "", "", "")))
        /\ lastOp' = Op("updateItemQuantity", id, "", q, "", "", "")
        /\ callerResult' = IF user THEN "pending" ELSE "resolved"
        /\ CountOp

UpdateItemQuantity == UpdateItemQuantityWith(CoordQtyArgs)

\* CartStateService.clearCart up to its await
ClearCart ==
    \E t \in Clock :
        /\ Commit(Await(LocalClearStep(At(t)), Op("clear", 0, "", 0, "", "", "")))
        /\ lastOp' = Op("clearCart", 0, "", 0, "", "", "")
        /\ callerResult' = IF user THEN "pending" ELSE "resolved"
        /\ CountOp

\* the remote call of an awaiting operation
CallRemote(s, call) ==
    CASE call.op = "add" ->
            addCartItem(s, [ product_id      |-> call.pid,
                             quantity        |-> call.q,
                             selected_color  |-> call.c,
                             selected_handle |-> call.h,
                             custom_name     |-> call.n ])
      [] call.op = "remove" -> removeCartItem(s, call.id)
      [] call.op = "update" ->
            updateCartItem(s, call.id, [ quantity        |-> call.q,
                                         selected_color  |-> UNDEF,
                                         selected_handle |-> UNDEF,
                                         custom_name     |-> UNDEF ])
      [] OTHER -> clearUserCart(s)

\* the catch block of the operation
CallCatch(s, call) ==
    LET k == FindIndex(s.cartState.items, LAMBDA it : it.id = call.id)
    IN  CASE call.op = "add" ->
                addPendingChange(s, "add", CreateItem(call.pid, call.q, call.c, call.h, call.n))
          [] call.op = "remove" ->
                IF k # 0
                THEN addPendingChangeOf(s, "remove", k)
                ELSE s
          [] call.op = "update" ->
                IF k # 0
                THEN addPendingChange(s, "update",
                        [StoredItem(s.cartState.items[k]) EXCEPT !.quantity = call.q])
                ELSE s
          [] OTHER ->
                IF Len(s.cartState.items) > 0
                THEN addPendingChangeOf(s, "remove", 1)
                ELSE addPendingChange(s, "remove", NoItem)

\* an operation whose catch block rethrows
Settles_rethrow(r) == IF r.ok THEN "resolved" ELSE "rejected"

\* how the operation's promise settles: the catch block swallows every error
Settles(r) == "resolved"

\* the remote call of an operation returns and the operation finishes
CallDone ==
    \E i \in 1..Len(calls) :
        LET call == calls[i]
            s0 == [Cur EXCEPT !.calls = RemoveAt(@, i)]
            r == CallRemote(s0, call)
        IN  /\ Commit(IF r.ok THEN r.s ELSE CallCatch(s0, call))
            /\ lastOp' = [call EXCEPT !.op = IF r.ok THEN "callOk" ELSE "callFailed",
                                      !.of = call.op]
            /\ callerResult' = Settles(r)
            /\ reconSnap' = NoSnap
            /\ UNCHANGED uiOps

(* ------------------------------ queue drain ------------------------------ *)
\* the remote call a drain awaits returns; the loop runs on to its next await
DrainStep ==
    \E d \in 1..Len(drains) :
        LET c == drains[d].changes[drains[d].pos]
            r == ReplayCall(Cur, changeObj[c])
        IN  /\ Commit(IF r.ok
                      THEN DrainRun([r.s EXCEPT !.drains[d].pos = @ + 1], d)
                      ELSE DrainRun(ReplayFailed(Cur, d, c), d))
            /\ lastOp' = Op(IF r.ok THEN "replayOk" ELSE "replayFailed", c, "", d, "", "", "")
            /\ reconSnap' = NoSnap
            /\ UNCHANGED <<callerResult, uiOps>>

(* ------------------------------ environment ------------------------------ *)
\* window 'offline' event
GoOffline ==
    /\ syncStatus.isOnline
    /\ Commit(syncStatusNext([Cur EXCEPT !.remoteUp = FALSE],
                             [syncStatus EXCEPT !.isOnline = FALSE]))
    /\ lastOp' = Op("offline", 0, "", 0, "", "", "")
    /\ UNCHANGED <<callerResult, uiOps, reconSnap>>

\* window 'online' event
GoOnline ==
    /\ ~syncStatus.isOnline
    /\ Commit(syncStatusNext([Cur EXCEPT !.remoteUp = TRUE],
                             [syncStatus EXCEPT !.isOnline = TRUE]))
    /\ lastOp' = Op("online", 0, "", 0, "", "", "")
    /\ UNCHANGED <<callerResult, uiOps, reconSnap>>

\* the remote starts failing without the browser going offline
RemoteFails ==
    /\ syncStatus.isOnline /\ remoteUp
    /\ Commit([Cur EXCEPT !.remoteUp = FALSE])
    /\ lastOp' = Op("remoteFails", 0, "", 0, "", "", "")
    /\ UNCHANGED <<callerResult, uiOps, reconSnap>>

RemoteRecovers ==
    /\ syncStatus.isOnline /\ ~remoteUp
    /\ Commit([Cur EXCEPT !.remoteUp = TRUE])
    /\ lastOp' = Op("remoteRecovers", 0, "", 0, "", "", "")
    /\ UNCHANGED <<callerResult, uiOps, reconSnap>>

(* ----------------------------- reconciliation ---------------------------- *)
SameKey(dbItem, localItem) ==
    /\ dbItem.product_id = localItem.pid
    /\ dbItem.selected_color = localItem.selectedColor
    /\ dbItem.selected_handle = localItem.selectedHandle
    /\ dbItem.custom_name = localItem.customName

\* local items with no row of the same key
ItemsToAdd(localItems, dbItems) ==
    SelectSeq(localItems, LAMBDA li : ~\E i \in 1..Len(dbItems) : SameKey(dbItems[i], li))

\* rows with no local item of the same key
ItemsToRemove(localItems, dbItems) ==
    SelectSeq(dbItems, LAMBDA di : ~\E i \in 1..Len(localItems) : SameKey(di, localItems[i]))

\* local items whose first row of the same key has another quantity
ItemsToUpdate(localItems, dbItems) ==
    SelectSeq(localItems, LAMBDA li :
        LET k == FindIndex(dbItems, LAMBDA di : SameKey(di, li))
        IN  k # 0 /\ dbItems[k].quantity # li.quantity)

\* the remote calls handed to Promise.all, in the order they are issued
ReconCalls(localItems, dbItems) ==
    LET adds == ItemsToAdd(localItems, dbItems)
        rems == ItemsToRemove(localItems, dbItems)
        upds == ItemsToUpdate(localItems, dbItems)
    IN  [i \in 1..Len(adds) |->
            Op("add", 0, adds[i].pid, adds[i].quantity, adds[i].selectedColor,
               adds[i].selectedHandle, adds[i].customName)]
        \o [i \in 1..Len(rems) |-> Op("remove", rems[i].id, "", 0, "", "", "")]
        \o [i \in 1..Len(upds) |->
            Op("update",
               dbItems[FindIndex(dbItems, LAMBDA di : SameKey(di, upds[i]))].id,
               "", upds[i].quantity, "", "", "")]

\* the items of CartState have just been built from fetched rows: they are
\* objects nothing else refers to
FreshItems(s) ==
    [s EXCEPT !.shared = {},
              !.recons = [r \in DOMAIN @ |-> [@[r] EXCEPT !.live = {}]],
              !.changeRef = [c \in DOMAIN @ |-> [@[c] EXCEPT !.live = FALSE]]]

\* the two catch blocks a failed reconciliation runs through
ReconCatch(s) ==
    LET s1 == syncStatusNext(s, [s.syncStatus EXCEPT !.errors = 1])
    IN  [s1 EXCEPT !.cartState.error = "error", !.cartState.isLoading = FALSE]

\* a completion that does not persist the synchronized items
ReconFinish_notPersisted(s, syncedItems) ==
    FreshItems([s EXCEPT !.cartState.items = syncedItems,
                         !.cartState.summary = calculateSummary(syncedItems),
                         !.cartState.lastSync = s.now,
                         !.cartState.isLoading = FALSE])

\* CartStateService.syncCartWithDatabase after the synchronized items have arrived
ReconFinish(s, syncedItems) ==
    saveCartToStorage(
        FreshItems([s EXCEPT !.cartState.items = syncedItems,
                             !.cartState.summary = calculateSummary(syncedItems),
                             !.cartState.lastSync = s.now,
                             !.cartState.isLoading = FALSE]),
        syncedItems)

\* CartStateService.syncCartWithDatabase up to the first fetch
ReconStart(s) ==
    [s EXCEPT !.cartState.isLoading = TRUE,
              !.cartState.error = NULL,
              !.recons = Append(@, [ phase |-> "fetch1", localItems |-> s.cartState.items,
                                     ops |-> <<>>, alive |-> TRUE,
                                     live |-> Ids(s.cartState.items),
                                     loc |-> s.shared ]),
              !.overflow = @ \/ Len(s.recons) >= MaxRecons]

\* setupRealtimeSubscription: the old channel is dropped, a new one opened
setupRealtimeSubscription(s) == [s EXCEPT !.sub = TRUE, !.feed = <<>>]

\* AuthService emits an authenticated state with isLoading = loading:
\* getCurrentUser() returns the user from now on, and the subscriber of
\* authState$, while it is subscribed, starts a reconciliation and opens the
\* channel
AuthEmitLoading(loading) ==
    /\ Commit(LET s0 == [Cur EXCEPT !.user = TRUE, !.authLoading = loading]
              IN  IF authSub THEN setupRealtimeSubscription(ReconStart(s0)) ELSE s0)
    /\ lastOp' = Op(IF user THEN "authAgain" ELSE "signIn", 0, "", 0, "", "", "")
    /\ UNCHANGED <<callerResult, uiOps, reconSnap>>

\* a session arrives (onAuthStateChange, getSession: isLoading false), or the
\* profile of the signed-in user is emitted (isLoading as it was)
AuthEmit ==
    \E loading \in {FALSE} \cup (IF user THEN {authLoading} ELSE {}) :
        AuthEmitLoading(loading)

SignIn == ~user /\ AuthEmit
\* the user signs in before touching the cart
SignInFresh == uiOps = 0 /\ ~storage.present /\ SignIn
AuthAgain == user /\ AuthEmit

\* clearRealtimeSubscription
clearRealtimeSubscription(s) == [s EXCEPT !.sub = FALSE, !.feed = <<>>]

\* clearDatabaseSync
clearDatabaseSync(s) == [s EXCEPT !.cartState.lastSync = 0, !.cartState.error = NULL]

\* AuthService emits an unauthenticated state (a user signs out, or a state
\* without a user is emitted for a guest): getCurrentUser() returns null from
\* now on, and the subscriber of authState$, while it is subscribed, drops the
\* channel and clears lastSync and error
UnauthEmitLoading(loading) ==
    /\ Commit(LET s0 == [Cur EXCEPT !.user = FALSE, !.authLoading = loading]
              IN  IF authSub THEN clearDatabaseSync(clearRealtimeSubscription(s0)) ELSE s0)
    /\ lastOp' = Op(IF user THEN "signOut" ELSE "authNone", 0, "", 0, "", "", "")
    /\ UNCHANGED <<callerResult, uiOps, reconSnap>>

\* no session (onAuthStateChange, getSession: isLoading false), or
\* AuthService.signOut's clearAuth (isLoading as it was)
SignOut ==
    \E loading \in {FALSE, authLoading} : UnauthEmitLoading(loading)

\* AuthService.initializeAuth up to its first await: the state is emitted again
\* with isLoading true
InitializeAuth ==
    IF user THEN AuthEmitLoading(TRUE) ELSE UnauthEmitLoading(TRUE)

\* CartStateService.ngOnDestroy: the change feed and authState$ are unsubscribed;
\* the subscriptions to CartService and to the sync status stay
NgOnDestroy ==
    /\ authSub
    /\ Commit([clearRealtimeSubscription(Cur) EXCEPT !.authSub = FALSE])
    /\ lastOp' = Op("ngOnDestroy", 0, "", 0, "", "", "")
    /\ UNCHANGED <<callerResult, uiOps, reconSnap>>

\* the first fetch of a reconciliation returns
ReconFetched ==
    \E r \in 1..Len(recons) :
        /\ recons[r].phase = "fetch1"
        /\ LET ops == ReconCalls(recons[r].localItems, DB_select(Cur))
           IN  Commit(IF ~remoteUp
                      THEN ReconCatch([Cur EXCEPT !.recons = RemoveAt(@, r)])
                      ELSE [Cur EXCEPT !.recons[r].ops = ops,
                                       !.recons[r].phase =
                                            IF ops = <<>> THEN "fetch2" ELSE "ops"])
        /\ lastOp' = Op("reconFetched", 0, "", 0, "", "", "")
        /\ UNCHANGED <<callerResult, uiOps, reconSnap>>

\* one of the calls under Promise.all returns
ReconCallDone ==
    \E r \in 1..Len(recons) : \E k \in 1..Len(recons[r].ops) :
        LET res == CallRemote([Cur EXCEPT !.recons[r].ops = RemoveAt(@, k)], recons[r].ops[k])
            s1 == res.s
            left == s1.recons[r].ops
            alive == s1.recons[r].alive
            \* Promise.all rejects on the first failure; the other calls still return
            s2 == IF res.ok \/ ~alive THEN s1
                  ELSE ReconCatch([s1 EXCEPT !.recons[r].alive = FALSE])
        IN  /\ recons[r].phase = "ops"
            /\ Commit(IF left # <<>> THEN s2
                      ELSE IF s2.recons[r].alive
                           THEN [s2 EXCEPT !.recons[r].phase = "fetch2"]
                           ELSE [s2 EXCEPT !.recons = RemoveAt(@, r)])
            /\ lastOp' = [Op(IF res.ok THEN "reconCallOk" ELSE "reconCallFailed",
                             0, "", 0, "", "", "") EXCEPT !.of = recons[r].ops[k].op]
            /\ UNCHANGED <<callerResult, uiOps, reconSnap>>

\* the final fetch returns and the coordinator takes over the remote set
ReconDone ==
    \E t \in Clock, r \in 1..Len(recons) :
        /\ recons[r].phase = "fetch2"
        /\ LET s0 == [At(t) EXCEPT !.recons = RemoveAt(@, r)]
           IN  Commit(IF ~remoteUp
                      THEN ReconCatch(s0)
                      ELSE ReconFinish(
                              syncStatusNext(s0, [s0.syncStatus EXCEPT
                                                    !.lastSync = 1,
                                                    !.pendingChanges = 0,
                                                    !.errors = 0]),
                              TransformAll(DB_select(s0))))
        /\ lastOp' = Op(IF remoteUp THEN "reconDone" ELSE "reconFailed", 0, "",
                        Len(recons[r].localItems), "", "", "")
        /\ reconSnap' = IF remoteUp
                        THEN [valid |-> TRUE, items |-> cartState'.items, db |-> db']
                        ELSE reconSnap
        /\ UNCHANGED <<callerResult, uiOps>>

(* ------------------------------- change feed ----------------------------- *)
\* the fields the UPDATE case assigns to an item object
AssignRowToItem(it, row) ==
    [it EXCEPT !.quantity = row.quantity,
               !.selectedColor = row.selected_color,
               !.selectedHandle = row.selected_handle,
               !.customName = row.custom_name]

\* the UPDATE case writes the row's fields into the item object it finds by id;
\* every array that holds this object sees the new fields
AssignRow(items, row) ==
    LET k == FindIndex(items, LAMBDA it : it.id = row.id)
    IN  IF k = 0 THEN items
        ELSE [items EXCEPT ![k] = AssignRowToItem(@, row)]

\* handleRealtimeCartChange for the oldest undelivered event
handleRealtimeCartChange(s, ev) ==
    LET items == s.cartState.items
        k == FindIndex(items, LAMBDA it : it.id = ev.row.id)
        updated == AssignRow(items, ev.row)
        kept == SelectSeq(items, LAMBDA it : it.id # ev.row.id)
    IN  CASE ev.eventType = "INSERT" ->
                [s EXCEPT !.fetches = @ + 1, !.overflow = @ \/ s.fetches >= MaxFetches]
          [] ev.eventType = "UPDATE" ->
                IF k = 0 THEN s
                ELSE saveCartToStorage(
                        [s EXCEPT !.cartState.items = updated,
                                  !.cartState.summary = calculateSummary(updated),
                                  !.cartState.lastSync = s.now,
                                  !.localCart.items =
                                        IF ev.row.id \in s.shared
                                        THEN AssignRow(@, ev.row) ELSE @,
                                  !.recons = [r \in DOMAIN @ |->
                                        IF ev.row.id \in @[r].live
                                        THEN [@[r] EXCEPT !.localItems = AssignRow(@, ev.row)]
                                        ELSE @[r]],
                                  !.changeObj = [c \in DOMAIN @ |->
                                        IF s.changeRef[c].live /\ @[c].item.id = ev.row.id
                                        THEN [@[c] EXCEPT !.item = AssignRowToItem(@, ev.row)]
                                        ELSE @[c]]],
                        updated)
          [] OTHER ->
                saveCartToStorage(
                    [s EXCEPT !.cartState.items = kept,
                              !.cartState.summary = calculateSummary(kept),
                              !.cartState.lastSync = s.now,
                              !.shared = @ \ {ev.row.id},
                              !.recons = [r \in DOMAIN @ |->
                                            [@[r] EXCEPT !.live = @ \ {ev.row.id}]],
                              !.changeRef = [c \in DOMAIN @ |->
                                    [@[c] EXCEPT !.live = @ /\ s.changeObj[c].item.id # ev.row.id]]],
                    kept)

FeedDeliver ==
    /\ feed # <<>>
    /\ \E t \in Clock :
            Commit(handleRealtimeCartChange([At(t) EXCEPT !.feed = Tail(@)], Head(feed)))
    /\ lastOp' = Op(Head(feed).eventType, Head(feed).row.id, "", 0, "", "", "")
    /\ reconSnap' = IF cartState'.items = cartState.items THEN reconSnap ELSE NoSnap
    /\ UNCHANGED <<callerResult, uiOps>>

\* the refetch of an INSERT event returns; a failed fetch is dropped
FetchDone ==
    /\ fetches > 0
    /\ \E t \in Clock : \E s0 \in {[At(t) EXCEPT !.fetches = @ - 1]} :
       \E items \in {TransformAll(DB_select(s0))} :
           Commit(IF ~remoteUp THEN s0
                  ELSE saveCartToStorage(
                          FreshItems([s0 EXCEPT !.cartState.items = items,
                                                !.cartState.summary = calculateSummary(items),
                                                !.cartState.lastSync = s0.now]),
                          items))
    /\ lastOp' = Op(IF remoteUp THEN "fetchOk" ELSE "fetchFailed", 0, "", 0, "", "", "")
    /\ reconSnap' = IF cartState'.items = cartState.items THEN reconSnap ELSE NoSnap
    /\ UNCHANGED <<callerResult, uiOps>>

(* ------------------- another session of the same user -------------------- *)
OtherInsert ==
    \E pid \in Products, q \in 1..MaxQty :
        LET r == DB_insert([Cur EXCEPT !.remoteUp = TRUE],
                           [ product_id |-> pid, quantity |-> q, selected_color |-> UNDEF,
                             selected_handle |-> UNDEF, custom_name |-> UNDEF ])
        IN  /\ r.ok
            /\ Commit([r.s EXCEPT !.remoteUp = remoteUp])
            /\ lastOp' = Op("otherInsert", DbIdBase + nextDbId, pid, q, "", "", "")
            /\ reconSnap' = NoSnap
            /\ UNCHANGED <<callerResult, uiOps>>


OtherUpdate ==
    \E i \in 1..Len(db), q \in 1..MaxQty :
        LET r == DB_update([Cur EXCEPT !.remoteUp = TRUE], db[i].id,
                           [ quantity |-> q, selected_color |-> UNDEF,
                             selected_handle |-> UNDEF, custom_name |-> UNDEF ])
        IN  /\ q # db[i].quantity
            /\ r.ok
            /\ Commit([r.s EXCEPT !.remoteUp = remoteUp])
            /\ lastOp' = Op("otherUpdate", db[i].id, db[i].product_id, q, "", "", "")
            /\ reconSnap' = NoSnap
            /\ UNCHANGED <<callerResult, uiOps>>


(* ------------------- CartIntegrationService: checkout -------------------- *)
\* a validation that does not compare the quantity with the stock
validateCartForCheckout_ignoreStockQuantity(state) ==
    LET items == state.items
        perItem(i) == IF ~items[i].inStock THEN <<"is out of stock">> ELSE <<>>
        RECURSIVE forEach(_)
        forEach(i) == IF i > Len(items) THEN <<>> ELSE perItem(i) \o forEach(i + 1)
        errors == (IF Len(items) = 0 THEN <<"Cart is empty">> ELSE <<>>)
                  \o forEach(1)
                  \o (IF state.summary.totalPrice <= 0 THEN <<"Invalid cart total">> ELSE <<>>)
    IN  [isValid |-> Len(errors) = 0, errors |-> errors]

\* CartIntegrationService.validateCartForCheckout on a CartState
validateCartForCheckout(state) ==
    LET items == state.items
        perItem(i) == (IF ~items[i].inStock THEN <<"is out of stock">> ELSE <<>>)
                      \o (IF items[i].quantity > items[i].stockQuantity
                          THEN <<"Only available">> ELSE <<>>)
        RECURSIVE forEach(_)
        forEach(i) == IF i > Len(items) THEN <<>> ELSE perItem(i) \o forEach(i + 1)
        errors == (IF Len(items) = 0 THEN <<"Cart is empty">> ELSE <<>>)
                  \o forEach(1)
                  \o (IF state.summary.totalPrice <= 0 THEN <<"Invalid cart total">> ELSE <<>>)
    IN  [isValid |-> Len(errors) = 0, errors |-> errors]

\* the checkout page asks for the validation of the current CartState
ValidateCartForCheckout ==
    /\ Commit([Cur EXCEPT !.validation = validateCartForCheckout(cartState)])
    /\ lastOp' = Op("validateCartForCheckout", 0, "", 0, "", "", "")
    /\ UNCHANGED <<callerResult, uiOps, reconSnap>>

(* ----------------------------- CartSyncGuard ---------------------------- *)
\* a navigation to a guarded route starts: the guard subscribes to authState$,
\* whose current value is replayed to it, and waits while isLoading is true.
\* Once the authentication state is known a guest passes at once; for a user
\* the guard subscribes to cartState$, whose current value is replayed to it
CartSyncGuardStart ==
    /\ guard = "idle"
    /\ Commit([Cur EXCEPT !.guard = "authWait"])
    /\ lastOp' = Op("guardStart", 0, "", 0, "", "", "")
    /\ UNCHANGED <<callerResult, uiOps, reconSnap>>

\* timeout(5000) fires before an authentication state with isLoading false was
\* emitted: the catch block returns true
CartSyncGuardAuthTimeout ==
    /\ guard = "authWait"
    /\ Commit([Cur EXCEPT !.guard = "allowed"])
    /\ lastOp' = Op("guardAuthTimeout", 0, "", 0, "", "", "")
    /\ UNCHANGED <<callerResult, uiOps, reconSnap>>

\* timeout(10000) fires before a CartState passed the filter: the catch block
\* returns true
CartSyncGuardTimeout ==
    /\ guard = "waiting"
    /\ ~GuardFilter(cartState)
    /\ Commit([Cur EXCEPT !.guard = "allowed"])
    /\ lastOp' = Op("guardTimeout", 0, "", 0, "", "", "")
    /\ UNCHANGED <<callerResult, uiOps, reconSnap>>

(* ------------------------------ page reload ------------------------------ *)
\* CartService constructor: loadCartFromStorage publishes the stored items
\* through updateCart (no subscriber yet), which saves them without lastSync
CS_loadCartFromStorage(s) ==
    IF ~s.storage.present THEN s
    ELSE [s EXCEPT !.localCart = [ items     |-> s.storage.items,
                                   summary   |-> calculateSummary(s.storage.items),
                                   isLoading |-> FALSE,
                                   error     |-> NULL,
                                   lastSync  |-> s.now ],
                   !.storage = [present |-> TRUE, items |-> s.storage.items, lastSync |-> 0]]

\* CartStateService.loadCartFromStorage: items parsed from the stored text
loadCartFromStorage(s) ==
    IF ~s.storage.present THEN s
    ELSE [s EXCEPT !.cartState.items = s.storage.items,
                   !.cartState.summary = calculateSummary(s.storage.items),
                   !.cartState.lastSync = s.storage.lastSync,
                   !.shared = {}]

\* the constructor of CartStateService over a constructed CartService:
\* initializeCartState loads the stored cart and subscribes to CartService,
\* whose current state is replayed; setupAuthSubscription subscribes to
\* authState$, whose current state (no user yet) is replayed
constructCartStateService(s) ==
    LET s1 == loadCartFromStorage(s)
        s2 == updateLocalCartState(s1, s1.localCart)
    IN  clearDatabaseSync(clearRealtimeSubscription([s2 EXCEPT !.authSub = TRUE]))

\* the page is loaded again: what was in memory is gone, the services are
\* constructed anew over localStorage; the remote table and the id source stay
Reload ==
    /\ Commit(LET s0 == [Cur EXCEPT
                            !.localCart = EmptyCartState,
                            !.cartState = EmptyCartState,
                            !.user = FALSE, !.authLoading = TRUE,
                            !.sub = FALSE, !.feed = <<>>,
                            !.calls = <<>>, !.drains = <<>>, !.recons = <<>>,
                            !.fetches = 0, !.pendingChanges = <<>>,
                            !.syncStatus = [ isOnline |-> @.isOnline, lastSync |-> 0,
                                             pendingChanges |-> 0, errors |-> 0 ],
                            !.syncState = [ isOnline |-> syncStatus.isOnline, lastSyncAttempt |-> 0,
                                            pendingChanges |-> <<>>, syncErrors |-> <<>> ],
                            !.validation = NoValidation,
                            !.guard = "idle",
                            !.shared = {}]
              IN  constructCartStateService(CS_loadCartFromStorage(s0)))
    /\ lastOp' = Op("reload", 0, "", 0, "", "", "")
    /\ reconSnap' = NoSnap
    /\ UNCHANGED <<callerResult, uiOps>>
(* ----------------------------- specifications ---------------------------- *)
\* the signed-in user adds a product not yet in the cart while the browser is offline
OfflineAdd(pid, q) ==
    /\ user /\ ~syncStatus.isOnline
    /\ recons = <<>> /\ fetches = 0
    /\ ~HasTuple(localCart.items, pid, UNDEF, UNDEF, UNDEF)
    /\ AddToCartWith({pid}, {q}, {UNDEF})

\* a user signs in on a fresh profile, loses the connection, adds item A (p1, 1)
\* and item B (p2, 2), and the connection comes and goes
NextOffline == SignInFresh \/ ReconFetched \/ ReconDone
               \/ GoOffline \/ GoOnline
               \/ OfflineAdd("p1", 1) \/ OfflineAdd("p2", 2)
               \/ CallDone \/ DrainStep \/ FeedDeliver \/ FetchDone
SpecOffline == Init /\ [][NextOffline]_vars

\* a guest or a signed-in user works on the cart while the remote fails and
\* recovers; items are added one at a time or with quantity 0, larger
\* quantities come from merged lines and from updateItemQuantity
NextOps == SignInFresh \/ ReconFetched \/ ReconCallDone \/ ReconDone
           \/ AddToCartWith(Products, {0, 1}, {UNDEF}) \/ RemoveFromCart \/ UpdateItemQuantity \/ ClearCart
           \/ CallDone \/ DrainStep
           \/ RemoteFails \/ RemoteRecovers \/ FeedDeliver \/ FetchDone
SpecOps == Init /\ [][NextOps]_vars

\* a guest fills the cart before signing in
GuestAdd == ~user /\ AddToCartWith(Products, 1..MaxQty, {UNDEF})

\* the other session writes while no reconciliation of this session is in flight
OtherInsertIdle == recons = <<>> /\ OtherInsert
OtherUpdateIdle == recons = <<>> /\ OtherUpdate

\* a guest fills the cart, another session of the user writes rows, the user
\* signs in and the authentication state is emitted again
NextRecon == GuestAdd \/ OtherInsertIdle \/ OtherUpdateIdle \/ SignIn \/ AuthAgain
             \/ ReconFetched \/ ReconCallDone \/ ReconDone
             \/ FeedDeliver \/ FetchDone
SpecRecon == Init /\ [][NextRecon]_vars

\* the other session adds an item while this session is signed in, also while
\* a reconciliation of this session is in flight
SessionOneAdds == user /\ OtherInsert

\* a guest puts item A (p1, 1) into the cart before signing in
GuestAddsOne == ~user /\ AddToCartWith({"p1"}, {1}, {UNDEF})

\* session 2 signs in, possibly with a guest cart, and stays signed in while
\* session 1 adds items; the authentication state may be emitted again and the
\* remote may fail and recover
NextFeed == GuestAddsOne \/ SignIn \/ AuthAgain
            \/ ReconFetched \/ ReconCallDone \/ ReconDone
            \/ SessionOneAdds \/ FeedDeliver \/ FetchDone
            \/ RemoteFails \/ RemoteRecovers
\* every event is delivered and every request of this session returns
SpecFeed == Init /\ [][NextFeed]_vars
            /\ WF_vars(FeedDeliver) /\ WF_vars(FetchDone)
            /\ WF_vars(ReconFetched) /\ WF_vars(ReconCallDone) /\ WF_vars(ReconDone)

\* a user signs in on a fresh profile and works on the cart; the remote is
\* reachable throughout
NextSteady == SignInFresh \/ ReconFetched \/ ReconCallDone \/ ReconDone
              \/ AddToCartWith(Products, 1..MaxQty, {UNDEF}) \/ RemoveFromCart
              \/ UpdateItemQuantityWith(1..MaxQty)
              \/ CallDone \/ DrainStep \/ FeedDeliver \/ FetchDone
SpecSteady == Init /\ [][NextSteady]_vars


(* sessions that end: sign-in, mutations with a failing remote, sign-out *)
NextSession ==
    \/ SignInFresh \/ SignOut \/ NgOnDestroy
    \/ ReconFetched \/ ReconCallDone \/ ReconDone
    \/ AddToCartWith(Products, {1}, {UNDEF})
    \/ CallDone \/ DrainStep
    \/ RemoteFails \/ RemoteRecovers
    \/ FeedDeliver \/ FetchDone

SpecSession == Init /\ [][NextSession]_vars

(* a guest cart reconciled at sign-in while the remote may fail *)
NextReconFail ==
    \/ GuestAdd \/ SignIn
    \/ RemoteFails \/ RemoteRecovers
    \/ ReconFetched \/ ReconCallDone \/ ReconDone
    \/ FeedDeliver \/ FetchDone

SpecReconFail == Init /\ [][NextReconFail]_vars

(* checkout validation, a pure function of the CartState it is handed *)
MaxStock == 2
MaxCartLen == 2

\* a cart item with the stock fields of its product snapshot
CheckoutItems ==
    { [ id |-> 0, pid |-> p, quantity |-> q, price |-> Price(p),
        selectedColor |-> UNDEF, selectedHandle |-> UNDEF, customName |-> UNDEF,
        inStock |-> a, stockQuantity |-> k ] :
      p \in Products, q \in QtyArgs, a \in BOOLEAN, k \in 0..MaxStock }

CheckoutCarts ==
    UNION { [1..n -> CheckoutItems] : n \in 0..MaxCartLen }

\* the coordinator holds some cart with its summary
InitCheckout ==
    /\ \E items \in CheckoutCarts :
          cartState = [EmptyCartState EXCEPT !.items = items,
                                             !.summary = calculateSummary(items)]
    /\ Constructed

NextCheckout == ValidateCartForCheckout
SpecCheckout == InitCheckout /\ [][NextCheckout]_vars

(* a navigation guarded by CartSyncGuard while the authentication state is
   initialized, a user signs in and out; the guest cart holds item A or nothing *)
NextGuard ==
    \/ GuestAddsOne \/ SignIn
    \/ RemoteFails \/ RemoteRecovers
    \/ ReconFetched \/ ReconCallDone \/ ReconDone
    \/ FeedDeliver \/ FetchDone
    \/ CartSyncGuardStart \/ CartSyncGuardAuthTimeout \/ CartSyncGuardTimeout
    \/ SignOut \/ InitializeAuth

SpecGuard == Init /\ [][NextGuard]_vars

(* a signed-in session whose page is reloaded while another session of the
   user changes quantities *)
NextReload ==
    \/ SignIn \/ Reload
    \/ AddToCartWith(Products, {1}, {UNDEF}) \/ CallDone
    \/ ReconFetched \/ ReconCallDone \/ ReconDone
    \/ FeedDeliver \/ FetchDone
    \/ OtherUpdate

SpecReload == Init /\ [][NextReload]_vars

\* item A (p1, 1) is added by a guest, or by a user who has lost the connection
\* after the reconciliation of the sign-in has completed
AddUnsynced ==
    /\ ~user \/ (~syncStatus.isOnline /\ recons = <<>>)
    /\ AddToCartWith({"p1"}, {1}, {UNDEF})

GuestRemove == ~user /\ RemoveFromCart
GuestUpdate == ~user /\ UpdateItemQuantityWith({MaxQty})
GuestClear == ~user /\ ClearCart

(* a session that starts on a fresh profile and ends, the cart being worked on
   during and after it while the connection comes and goes *)
NextGuest ==
    \/ SignInFresh \/ SignOut
    \/ ReconFetched \/ ReconDone
    \/ AddUnsynced \/ GuestRemove \/ GuestUpdate \/ GuestClear
    \/ CallDone \/ DrainStep
    \/ GoOffline \/ GoOnline
    \/ FeedDeliver \/ FetchDone

SpecGuest == Init /\ [][NextGuest]_vars

(* ================================ claims ================================= *)
\* sums over the lines of an item list, by index set
RECURSIVE QtyOver(_, _)
QtyOver(items, I) ==
    IF I = {} THEN 0
    ELSE LET i == CHOOSE j \in I : TRUE
         IN  items[i].quantity + QtyOver(items, I \ {i})

RECURSIVE AmountOver(_, _)
AmountOver(items, I) ==
    IF I = {} THEN 0
    ELSE LET i == CHOOSE j \in I : TRUE
         IN  items[i].price * items[i].quantity + AmountOver(items, I \ {i})

TotalQty(items) == QtyOver(items, DOMAIN items)
TotalAmount(items) == AmountOver(items, DOMAIN items)

\* C1: the summary published by the Local Cart Store satisfies
\* totalItems = sum of quantities, subtotal = sum of price * quantity and
\* totalPrice = subtotal + shipping + tax over the current item list.
C1_SummaryMatchesItems ==
    /\ localCart.summary.totalItems = TotalQty(localCart.items)
    /\ localCart.summary.subtotal = TotalAmount(localCart.items)
    /\ localCart.summary.totalPrice =
            localCart.summary.subtotal + localCart.summary.shipping + localCart.summary.tax

\* two lines with quantities above one, reached by an updateQuantity
C1_Witness ==
    /\ Len(localCart.items) = 2
    /\ lastOp.op = "update"
    /\ \A i \in 1..2 : localCart.items[i].quantity = 2

LinesOf(items, pid, c, h, n) == {i \in 1..Len(items) : SameTuple(items[i], pid, c, h, n)}

\* C2: an add of a tuple that already has a line leaves exactly one line for the
\* tuple, holding the sum of the line's quantity and the added quantity.
C2_AddMergesLine ==
    [][ ( /\ lastOp'.op = "add"
          /\ HasTuple(localCart.items, lastOp'.pid, lastOp'.c, lastOp'.h, lastOp'.n) )
        => LET old == LinesOf(localCart.items, lastOp'.pid, lastOp'.c, lastOp'.h, lastOp'.n)
               new == LinesOf(localCart'.items, lastOp'.pid, lastOp'.c, lastOp'.h, lastOp'.n)
           IN  /\ Cardinality(new) = 1
               /\ \A i \in old, j \in new :
                    localCart'.items[j].quantity = localCart.items[i].quantity + lastOp'.q
      ]_vars

\* C3: updateQuantity(id, q) with q <= 0 leaves the item list remove(id) leaves.
C3_UpdateNonPositiveIsRemove ==
    [][ (lastOp'.op = "update" /\ lastOp'.q <= 0)
        => localCart'.items = SelectSeq(localCart.items, LAMBDA it : it.id # lastOp'.id)
      ]_vars

\* an updateQuantity(id, 0) for an id handed out earlier, which is gone now
C3_Witness ==
    /\ lastOp.op = "update" /\ lastOp.q = 0
    /\ lastOp.id < nextLocalId
    /\ Len(localCart.items) = 1
    /\ \A i \in 1..Len(localCart.items) : localCart.items[i].id # lastOp.id

\* C4: every stored line item has quantity >= 1.
C4_QuantityPositive ==
    /\ \A i \in 1..Len(localCart.items) : localCart.items[i].quantity >= 1
    /\ \A i \in 1..Len(cartState.items) : cartState.items[i].quantity >= 1

ShippingRule(sm) ==
    /\ sm.shipping = IF sm.subtotal < FreeShippingThreshold THEN ShippingFee ELSE 0
    /\ sm.tax * 100 = sm.subtotal * TaxPercent

\* C5 as stated: shipping is 15 below a subtotal of 200 and 0 from 200 on,
\* and tax is 8% of the subtotal.
C5_ShippingAsStated == ShippingRule(localCart.summary) /\ ShippingRule(cartState.summary)

ShippingRuleAmended(sm) ==
    /\ sm.shipping = IF sm.subtotal > 0 /\ sm.subtotal < FreeShippingThreshold
                     THEN ShippingFee ELSE 0
    /\ sm.tax * 100 = sm.subtotal * TaxPercent

\* C5 amended: shipping is 15 for a subtotal above 0 and below 200, and 0 for a
\* subtotal of 200 or more and for a subtotal of 0 or less (the empty cart);
\* tax is 8% of the subtotal in every case.
C5_ShippingAmended ==
    ShippingRuleAmended(localCart.summary) /\ ShippingRuleAmended(cartState.summary)

\* a cart whose subtotal is exactly the threshold
C5_Witness ==
    /\ localCart.summary.subtotal = FreeShippingThreshold
    /\ localCart.items # <<>>

(* ---------------------------------- C6 ----------------------------------- *)
InQueue(q, c) == \E i \in 1..Len(q) : q[i] = c
DrainEnds == Len(drains') < Len(drains)

\* C6: when the pending queue is drained, a change whose replay succeeds is
\* gone from the queue when the drain ends, and a change whose replay fails for
\* the third time is gone from the queue when the drain ends and exactly one
\* new entry is appended to syncErrors for it.
C6_DrainSettlesChange ==
    [][ /\ (lastOp'.op = "replayOk" /\ DrainEnds)
            => ~InQueue(pendingChanges', lastOp'.id)
        /\ (lastOp'.op = "replayFailed"
                /\ changeObj[lastOp'.id].retryCount + 1 = RetryCeiling)
            => /\ DrainEnds => ~InQueue(pendingChanges', lastOp'.id)
               /\ Len(syncState'.syncErrors) = Len(syncState.syncErrors) + 1
      ]_vars

(* ---------------------------------- C7 ----------------------------------- *)
RowsOf(pid) == {i \in 1..Len(db) : db[i].product_id = pid}

\* C7: in the offline scenario (items A and B added once each while remote
\* writes fail) the summary counts every added item as soon as addToCart has
\* run, and the flush writes each item to the remote cart exactly once: the
\* remote cart never holds a second row for an item.
C7_FlushedExactlyOnce ==
    /\ lastOp.op = "addToCart"
            => cartState.summary.totalItems = TotalQty(localCart.items)
    /\ \A pid \in Products : Cardinality(RowsOf(pid)) <= 1

(* ---------------------------------- C10 ---------------------------------- *)
\* the step is the synchronous part of a coordinator operation
Issued(name) == lastOp'.op = name /\ uiOps' = uiOps + 1

\* C10: addToCart, removeFromCart, updateItemQuantity and clearCart of the
\* coordinator never reject towards the caller whatever the remote call's
\* outcome; the local cart is mutated in the step that issues the remote call,
\* before the remote is touched, and a failing remote call leaves the local
\* cart as mutated.
C10_OptimisticNeverFails ==
    [][ /\ callerResult' # "rejected"
        /\ Issued("addToCart") =>
              /\ localCart'.items = CS_addToCart(localCart.items, nextLocalId, lastOp'.pid,
                                        lastOp'.q, lastOp'.c, lastOp'.h, lastOp'.n)
              /\ db' = db
        /\ Issued("removeFromCart") =>
              /\ localCart'.items = CS_removeFromCart(localCart.items, lastOp'.id)
              /\ db' = db
        /\ Issued("updateItemQuantity") =>
              /\ localCart'.items = CS_updateItemQuantity(localCart.items, lastOp'.id, lastOp'.q)
              /\ db' = db
        /\ Issued("clearCart") =>
              /\ localCart'.items = <<>>
              /\ db' = db
        /\ lastOp'.op = "callFailed" =>
              /\ localCart'.items = localCart.items
              /\ callerResult' = "resolved"
      ]_vars

\* a remote add has failed, the operation resolved and the item is in the local cart
C10_Witness ==
    /\ lastOp.op = "callFailed" /\ lastOp.of = "add"
    /\ callerResult = "resolved"
    /\ HasTuple(localCart.items, lastOp.pid, lastOp.c, lastOp.h, lastOp.n)
    /\ db = <<>>

(* ---------------------------------- C8 ----------------------------------- *)
\* C8: reconciliation is idempotent: a full reconciliation that completes
\* after another one, with no local or remote mutation in between, leaves the
\* same Local Store contents and the same remote rows as the first one left.
C8_ReconIdempotent ==
    [][ (lastOp'.op = "reconDone" /\ reconSnap.valid)
            => /\ cartState'.items = reconSnap.items
               /\ db' = reconSnap.db
      ]_vars

(* ---------------------------------- C9 ----------------------------------- *)
DbIds == {DbIdBase + i : i \in 1..(MaxDbIds + 1)}
InsertPending(id) ==
    \E i \in 1..Len(feed) : feed[i].eventType = "INSERT" /\ feed[i].row.id = id
TimesInCart(id) == Cardinality({i \in 1..Len(cartState.items) : cartState.items[i].id = id})

\* C9: when an item has been added to the remote cart and this session has
\* the INSERT event of the change feed to process, its cart state eventually
\* contains that item exactly once, with no reload and no new authentication.
\* The statement is only required of behaviours in which the remote stays
\* reachable and the authentication state is not emitted again: a state with
\* the remote down, or a repeated emission, discharges it.
C9_InsertReachesSession ==
    \A id \in DbIds :
        InsertPending(id) ~> \/ TimesInCart(id) = 1
                             \/ ~remoteUp
                             \/ lastOp.op = "authAgain"

(* ---------------------------------- C11 ---------------------------------- *)
\* the reconciliation of this sign-in has run to its end without an error
ReconCompleted == user /\ recons = <<>> /\ syncStatus.errors = 0
\* the Synced state: reconciled, nothing in flight, nothing queued
Synced ==
    /\ ReconCompleted
    /\ calls = <<>> /\ drains = <<>> /\ fetches = 0 /\ feed = <<>>
    /\ pendingChanges = <<>>

KeyColors == {NULL, "red"}
\* quantity held under a key, an absent customisation read as NULL
LocalQty(items, pid, c) ==
    QtyOver(items, {i \in 1..Len(items) :
                        items[i].pid = pid /\ ToDb(items[i].selectedColor) = c})
RemoteQty(pid, c) ==
    LET rows == [i \in 1..Len(db) |-> [quantity |-> db[i].quantity]]
    IN  QtyOver(rows, {i \in 1..Len(db) :
                        db[i].product_id = pid /\ db[i].selected_color = c})

\* C11: in the Synced state the local item set and the remote rows of the
\* user agree: the same keys, each with the same quantity.
C11_SyncedAgrees ==
    Synced => \A pid \in Products, c \in KeyColors :
                /\ LocalQty(cartState.items, pid, c) = RemoteQty(pid, c)
                /\ LocalQty(localCart.items, pid, c) = RemoteQty(pid, c)

(* ---------------------------------- C12 ---------------------------------- *)
RowIds(rows) == {rows[i].id : i \in 1..Len(rows)}

\* C12: remote wins: a reconciliation never deletes a remote row (the only
\* rows it could delete are those whose key the local cart lacks), and when it
\* completes every remote row is an item of the Local Store.
C12_RemoteWins ==
    [][ /\ lastOp'.op \in {"reconCallOk", "reconCallFailed"}
            => RowIds(db) \subseteq RowIds(db')
        /\ lastOp'.op = "reconDone"
            => RowIds(db') \subseteq RowIds(cartState'.items)
      ]_vars

(* ---------------------------------- C13 ---------------------------------- *)
\* C13: when the remote call of a local mutation made while signed in fails,
\* the pending queue grows by exactly one change, and for add, remove and
\* update the appended change has the type of the mutation.
C13_FailureQueuesOne ==
    [][ lastOp'.op = "callFailed" =>
            /\ Len(pendingChanges') = Len(pendingChanges) + 1
            /\ lastOp'.of \in {"add", "remove", "update"} =>
                   changeObj'[pendingChanges'[Len(pendingChanges')]].type = lastOp'.of
      ]_vars

(* ---------------------------------- C14 ---------------------------------- *)
FeedEventTypes == {"INSERT", "UPDATE", "DELETE"}

\* C14: on the unauthenticated emission the subscription is cancelled and the
\* sync state is discarded (pending queue and syncErrors empty) while the Local
\* Store keeps its items; no feed event is handled while signed out.
C14_SignOutDiscards ==
    [][ /\ lastOp'.op = "signOut" =>
               /\ ~sub'
               /\ pendingChanges' = <<>>
               /\ syncState'.pendingChanges = <<>>
               /\ syncState'.syncErrors = <<>>
               /\ localCart'.items = localCart.items
        /\ lastOp'.op \in FeedEventTypes => user
      ]_vars

(* ---------------------------------- C15 ---------------------------------- *)
\* C15: the feed subscription exists only once the full reconciliation has
\* completed, and no feed event is handled while a reconciliation is in flight.
C15_SubscribeAfterRecon ==
    [][ /\ sub' => recons' = <<>>
        /\ lastOp'.op \in FeedEventTypes => recons = <<>>
      ]_vars

(* ---------------------------------- C16 ---------------------------------- *)
\* C16: a remote call of the reconciliation batch that fails does not abort
\* the reconciliation: it is still loading (its refetch and the overwrite of
\* the store are still to come), no error is recorded in CartState, and a
\* failed insert is appended to the pending queue.
C16_FailureKeepsBatch ==
    [][ lastOp'.op = "reconCallFailed" =>
            /\ cartState'.isLoading
            /\ cartState'.error = NULL
            /\ lastOp'.of = "add" => Len(pendingChanges') = Len(pendingChanges) + 1
      ]_vars

(* ---------------------------------- C17 ---------------------------------- *)
Checkable(state) ==
    /\ Len(state.items) > 0
    /\ \A i \in 1..Len(state.items) :
          /\ state.items[i].inStock
          /\ ~(state.items[i].quantity > state.items[i].stockQuantity)
    /\ state.summary.totalPrice > 0

\* C17: validateCartForCheckout returns isValid = TRUE exactly when its error
\* list is empty, which is exactly when the cart is non-empty, every item is in
\* stock, no quantity exceeds its stockQuantity and totalPrice > 0; an empty
\* cart gives isValid = FALSE with the error 'Cart is empty'.
C17_ValidIffNoErrors ==
    lastOp.op = "validateCartForCheckout" =>
        /\ validation.isValid <=> validation.errors = <<>>
        /\ validation.isValid <=> Checkable(cartState)
        /\ cartState.items = <<>> =>
              /\ ~validation.isValid
              /\ "Cart is empty" \in Range(validation.errors)

C17_Witness ==
    /\ lastOp.op = "validateCartForCheckout"
    /\ Len(cartState.items) = 2
    /\ \A i \in 1..2 : cartState.items[i].quantity > 0
    /\ validation.isValid

(* ---------------------------------- C18 ---------------------------------- *)
\* C18: CartSyncGuard lets a signed-in user navigate only once the cart sync
\* has completed: CartState is not loading, a sync is recorded in lastSync, and
\* no reconciliation is pending or has failed.
C18_GuardWaitsForSync ==
    [][ (guard # "allowed" /\ guard' = "allowed" /\ user') =>
            /\ ~cartState'.isLoading
            /\ cartState'.lastSync # 0
            /\ recons' = <<>>
            /\ cartState'.error = NULL
      ]_vars

(* ---------------------------------- C19 ---------------------------------- *)
\* C19: in every reachable state the summary stored in the Local Cart Store
\* and the one stored in the coordinator's CartState equal the summary
\* computed from the items of the same store.
C19_SummariesDerived ==
    /\ localCart.summary = calculateSummary(localCart.items)
    /\ cartState.summary = calculateSummary(cartState.items)

(* ---------------------------------- C20 ---------------------------------- *)
\* a row of the remote cart has the key and the quantity of a local item
RowFor(rows, it) ==
    \E j \in 1..Len(rows) :
        /\ rows[j].product_id = it.pid
        /\ rows[j].selected_color = ToDb(it.selectedColor)
        /\ rows[j].selected_handle = ToDb(it.selectedHandle)
        /\ rows[j].custom_name = ToDb(it.customName)
        /\ rows[j].quantity = it.quantity

\* C20: when a reconciliation completes and all its remote calls succeeded,
\* the remote cart holds, for every item the local cart had when the
\* reconciliation started, a row of the same key with the local quantity.
C20_LocalReachesRemote ==
    [][ lastOp'.op = "reconDone" =>
            \A r \in 1..Len(recons) :
                recons[r].phase = "fetch2" =>
                    \A i \in 1..Len(recons[r].localItems) :
                        RowFor(db', recons[r].localItems[i])
      ]_vars

(* ---------------------------------- C21 ---------------------------------- *)
LocalMutationOps == {"addToCart", "removeFromCart", "updateItemQuantity", "clearCart"}
FeedHandlingOps == FeedEventTypes \cup {"fetchOk", "fetchFailed"}

\* C21: a reconciliation that completes without error leaves in CartState
\* exactly the refetched remote rows (ids, keys, quantities) and the same items
\* in local storage; no step other than a local mutation, the handling of a
\* change-feed event, a later reconciliation or a reload changes either.
C21_ReconOverwritesVerbatim ==
    [][ /\ lastOp'.op = "reconDone" =>
               /\ cartState'.items = TransformAll(Reverse(db'))
               /\ storage'.present
               /\ storage'.items = cartState'.items
        /\ lastOp'.op \notin (LocalMutationOps \cup FeedHandlingOps \cup {"reconDone", "reload"}) =>
               /\ cartState'.items = cartState.items
               /\ storage'.items = storage.items
      ]_vars

\* a reconciliation has just completed over two remote rows
C21_Witness ==
    /\ lastOp.op = "reconDone"
    /\ Len(db) = 2
    /\ Len(cartState.items) = 2
    /\ storage.items = cartState.items

(* ---------------------------------- C22 ---------------------------------- *)
\* change objects are numbered in the order they were enqueued
InEnqueueOrder(q) == \A i, j \in 1..Len(q) : i < j => q[i] < q[j]
ReplayOps == {"replayOk", "replayFailed"}

\* C22: a drain replays its changes in enqueue order, one at a time: the
\* change whose replay returns is the one at the drain's position and was
\* enqueued after every change the drain replayed before; a failed replay
\* raises the retry counter of that change by exactly 1 and a successful one
\* leaves it; the queue is in enqueue order after every step.
C22_DrainInOrder ==
    [][ /\ InEnqueueOrder(pendingChanges')
        /\ lastOp'.op \in ReplayOps =>
              LET d == lastOp'.q
                  c == lastOp'.id
              IN  /\ d \in 1..Len(drains)
                  /\ c = drains[d].changes[drains[d].pos]
                  /\ \A j \in 1..(drains[d].pos - 1) : drains[d].changes[j] < c
                  /\ InEnqueueOrder(drains[d].failed)
                  /\ changeObj'[c] # NoChange =>
                        changeObj'[c].retryCount =
                            changeObj[c].retryCount + (IF lastOp'.op = "replayFailed" THEN 1 ELSE 0)
      ]_vars

\* a drain over two changes has ended with both replays failed
C22_Witness ==
    /\ lastOp.op = "replayFailed"
    /\ drains = <<>>
    /\ Len(pendingChanges) = 2
    /\ \A i \in 1..2 : changeObj[pendingChanges[i]].retryCount >= 1

(* ---------------------------------- C23 ---------------------------------- *)
\* C23: an authentication-state emission for a user who is already signed in
\* starts no reconciliation and opens no new change-feed subscription (the
\* events awaiting delivery on the existing one stay).
C23_ReconOncePerAuth ==
    [][ lastOp'.op = "authAgain" =>
            /\ Len(recons') = Len(recons)
            /\ feed' = feed
      ]_vars

(* ---------------------------------- C24 ---------------------------------- *)
\* lastSync of CartState is the latest timestamp of the two stores
LastSyncRefreshed(cs, lc) == cs.lastSync # 0 /\ cs.lastSync > lc.lastSync

\* C24: a DELETE event removes exactly the items with the id of the old record
\* and an UPDATE event overwrites quantity and customisation of the item with
\* the id of the new record, all other items staying as they are; in both
\* cases lastSync is refreshed, also when no item has that id.
C24_FeedMergeFrame ==
    [][ /\ lastOp'.op = "DELETE" =>
              /\ cartState'.items =
                    SelectSeq(cartState.items, LAMBDA it : it.id # Head(feed).row.id)
              /\ LastSyncRefreshed(cartState', localCart')
        /\ lastOp'.op = "UPDATE" =>
              /\ Len(cartState'.items) = Len(cartState.items)
              /\ \A i \in 1..Len(cartState.items) :
                    IF i = FindIndex(cartState.items, LAMBDA it : it.id = Head(feed).row.id)
                    THEN cartState'.items[i] =
                            [cartState.items[i] EXCEPT
                                !.quantity = Head(feed).row.quantity,
                                !.selectedColor = Head(feed).row.selected_color,
                                !.selectedHandle = Head(feed).row.selected_handle,
                                !.customName = Head(feed).row.custom_name]
                    ELSE cartState'.items[i] = cartState.items[i]
              /\ LastSyncRefreshed(cartState', localCart')
      ]_vars

(* ---------------------------------- C25 ---------------------------------- *)
\* C25: every change in the pending queue carries a defined item or creation
\* payload, also the change queued by a clearCart whose remote call failed.
C25_ChangeHasItem ==
    \A i \in 1..Len(pendingChanges) : changeObj[pendingChanges[i]].item.kind # "undefined"

(* ---------------------------------- C26 ---------------------------------- *)
\* C26: every change in the pending queue has a retry counter below the
\* ceiling, and a change whose replay has already failed RetryCeiling times is
\* not replayed again.
C26_RetryBelowCeiling ==
    [][ /\ \A i \in 1..Len(pendingChanges') :
              changeObj'[pendingChanges'[i]].retryCount < RetryCeiling
        /\ lastOp'.op \in ReplayOps => changeObj[lastOp'.id].retryCount < RetryCeiling
      ]_vars

(* ---------------------------------- C27 ---------------------------------- *)
ConnectivityOps == {"online", "offline"}

\* C27: while no user is signed in, a cart mutation issues no remote call and
\* queues no change, and a connectivity event starts no drain: the remote
\* rows, the calls in flight, the drains and the queue stay as they are.
C27_GuestStaysLocal ==
    [][ (~user /\ lastOp'.op \in (LocalMutationOps \cup ConnectivityOps)) =>
            /\ calls' = calls
            /\ drains' = drains
            /\ pendingChanges' = pendingChanges
            /\ syncState'.pendingChanges = syncState.pendingChanges
            /\ db' = db
            /\ lastOp'.op \in LocalMutationOps => callerResult' = "resolved"
      ]_vars

\* the browser comes online for a guest whose queue still holds a change
C27_Witness ==
    /\ lastOp.op = "online"
    /\ ~user
    /\ pendingChanges # <<>>
    /\ localCart.items # <<>>

(* ---------------------------------- C28 ---------------------------------- *)
\* the step in which drain d replays the last change of its snapshot and ends
LastReplayOf(d) ==
    /\ d \in 1..Len(drains)
    /\ drains[d].pos = Len(drains[d].changes)

\* C28: a change appended to the queue while a drain is in flight (a change of
\* the queue that is not in the drain's snapshot) is still in the queue after
\* the step in which that drain ends.
C28_DrainKeepsLaterChanges ==
    [][ (lastOp'.op \in ReplayOps /\ LastReplayOf(lastOp'.q)) =>
            \A i \in 1..Len(pendingChanges) :
                \/ pendingChanges[i] \in Range(drains[lastOp'.q].changes)
                \/ pendingChanges[i] \in Range(pendingChanges')
      ]_vars

(* ---------------------------------- C29 ---------------------------------- *)
\* C29: at most one drain of the queue is in flight at any time.
C29_OneDrainAtATime == Len(drains) <= 1

(* ---------------------------------- C30 ---------------------------------- *)
IdQty(items) == [i \in 1..Len(items) |-> <<items[i].id, items[i].quantity>>]
HasId(items, id) == \E i \in 1..Len(items) : items[i].id = id
WithoutId(items, id) == SelectSeq(items, LAMBDA it : it.id # id)
WithQuantity(items, id, q) ==
    [i \in 1..Len(items) |-> IF items[i].id = id
                             THEN [items[i] EXCEPT !.quantity = q]
                             ELSE items[i]]

\* C30: a local mutation acts on the item set S that the cart state holds:
\* removing an id of S leaves S without that item, a new quantity for an id
\* of S leaves S with that quantity, and an add of a positive quantity loses
\* no item of S.
C30_MutationAppliesToSynced ==
    [][ LET S == cartState.items
            id == lastOp'.id
        IN  /\ (lastOp'.op = "removeFromCart" /\ HasId(S, id)) =>
                    IdQty(cartState'.items) = IdQty(WithoutId(S, id))
            /\ (lastOp'.op = "updateItemQuantity" /\ HasId(S, id) /\ lastOp'.q > 0) =>
                    IdQty(cartState'.items) = IdQty(WithQuantity(S, id, lastOp'.q))
            /\ (lastOp'.op = "addToCart" /\ lastOp'.q > 0) =>
                    \A i \in 1..Len(S) : HasId(cartState'.items, S[i].id)
      ]_vars
====
